---- MODULE Spec2Model ----
(***************************************************************************)
(* A model of the Mannaz page-freshness scraper (scraper.py): the merge    *)
(* reconciler (merge_data, merge_with_external_source), the part of main   *)
(* that chooses the merge strategy, the URL discovery loops                *)
(* (extract_from_sitemap, discover_via_crawl, discover_via_hybrid) and the *)
(* extraction loop of main (extract_meta).                                 *)
(*                                                                         *)
(* A pandas DataFrame is a record [cols, rows]: cols is the set of column  *)
(* names and rows the sequence of rows, each a function from cols to cell  *)
(* values.  A missing cell (pandas NaN) is the value NaN.                  *)
(***************************************************************************)
EXTENDS Integers, Sequences, FiniteSets, TLC

VARIABLES
    \* merge_data and main
    pc,               \* "idle": a dataset is at hand; "returned": a call has returned
    caller,           \* "merge_data": called directly; "main": called by main
    existing_df,      \* the dataset handed to the call
    new_df,           \* the freshly scraped records handed to the call
    merge_strategy,   \* the strategy handed to the call
    final_df,         \* what the call returned
    urls,             \* main: the discovered URLs
    strategy_choice,  \* main: the answer at the strategy prompt
    pages,            \* main: what the site serves for each URL
    external_file,    \* merge_with_external_source: what read_csv gives
    key_column,       \* merge_with_external_source: the join key
    clean             \* the first dataset had no duplicate url, and every call
                      \* so far was a Skip or an Update merge

VARIABLES
    \* discover_via_crawl
    crawl_pc,         \* "loop": at the while test; "done": returned
    max_pages,        \* the page-visit limit
    visited,          \* set of URLs
    to_visit,         \* set of URLs: the frontier
    article_urls,     \* set of URLs: the result so far
    fetched,          \* how many pages requests.get was called for
    crawl_gap,        \* "none": no page fetched yet; "slept": time.sleep has
                      \* run since the last fetch; "raw": it has not
    crawl_result      \* the returned list

crawl_vars == <<crawl_pc, max_pages, visited, to_visit, article_urls, fetched,
                crawl_gap, crawl_result>>

VARIABLES
    \* discover_via_sitemap
    sm_pc,            \* "run": in the loop over the sitemaps; "done": returned
    sitemap_docs,     \* what the site serves for each sitemap URL
    roots_left,       \* the sitemaps of get_sitemaps() not yet gone into
    stack,            \* the calls of extract_from_sitemap in progress
    all_urls,         \* the URLs collected so far
    sm_fetched,       \* how many sitemaps requests.get was called for
    sm_deepest,       \* the largest depth a sitemap was fetched at
    sitemap_result    \* the returned list

sitemap_vars == <<sm_pc, sitemap_docs, roots_left, stack, all_urls, sm_fetched,
                  sm_deepest, sitemap_result>>

VARIABLES
    \* discover_via_hybrid
    hybrid_pc,        \* "sitemap": Phase 1; "crawl": Phase 2; "done": returned
    hybrid_result     \* the returned list

hybrid_vars == <<hybrid_pc, hybrid_result>>

VARIABLES
    \* two runs of discover_via_crawl on one site
    site_links,       \* what the site serves for each page
    pair_limit,       \* max_pages of both runs
    runs              \* for each run: [pc, visited, to_visit, article_urls, result]

pair_vars == <<site_links, pair_limit, runs>>

VARIABLES
    \* the extraction loop of main
    scrape_pc,        \* "loop": in the for loop; "done": new_df is built
    scrape_urls,      \* urls: the list the loop goes through
    scrape_rows,      \* rows: the records appended so far
    scrape_fetches,   \* what fetching gave for each URL gone through so far
    scrape_gap        \* "none": no page fetched yet; "slept": time.sleep has
                      \* run since the last fetch; "raw": it has not

scrape_vars == <<scrape_pc, scrape_urls, scrape_rows, scrape_fetches,
                 scrape_gap>>

\* The state of the operations other than the merges and the two discovery
\* loops.
side_vars == <<hybrid_vars, pair_vars, scrape_vars>>

merge_vars == <<pc, caller, existing_df, new_df, merge_strategy, final_df,
                urls, strategy_choice, pages, external_file, key_column,
                clean>>

vars == <<merge_vars, crawl_vars, sitemap_vars, side_vars>>

\* ------------------------------------------------------------------ bounds
\* Largest number of rows of a dataset handed to merge_data as existing_df.
MaxExisting == 2
\* Largest number of rows of a freshly scraped new_df.
MaxNew == 2

\* ------------------------------------------------------------- cell values
\* pandas' missing value: what read_csv gives for an empty cell and what
\* concat fills a column with that one of the frames does not have.
NaN == "<NaN>"

\* Python truthiness of a cell, as tested by `new_row[col]`: the empty string
\* is falsy; a non-empty string is truthy, and so is float NaN.
Truthy(v) == v # ""

Urls == {"u1", "u2"}

\* The columns of a PageRecord that the model carries.
AllCols == {"url", "title", "tags"}

\* Rows as extract_meta builds them: every column a string, possibly empty.
\* The (title, tags) pairs are a page with a title and no tags, and the
\* all-empty record of a failed fetch.
ScrapedCells == {<<"Y", "">>, <<"", "">>}
ScrapedRow(u, c) == [url |-> u, title |-> c[1], tags |-> c[2]]
ScrapedRows == {ScrapedRow(u, c) : u \in Urls, c \in ScrapedCells}

\* Rows as load_existing_data reads them back: an empty cell is NaN.
StoredRows == [url : Urls, title : {"X", NaN}, tags : {"T"}]

\* The same without the url column (a table that lacks the join key).
KeylessStoredRows == [title : {"X"}, tags : {"T"}]
KeylessScrapedRows == [title : {"Y"}, tags : {""}]

SeqsUpTo(S, n) == UNION {[1..k -> S] : k \in 0..n}

\* pd.DataFrame(): no columns, no rows.
NoFrame == [cols |-> {}, rows |-> <<>>]

Frame(cols, rows) == [cols |-> cols, rows |-> rows]

\* DataFrame.empty: true when either axis has length 0.
IsEmpty(df) == df.cols = {} \/ df.rows = <<>>

\* ------------------------------------------------------------------ pandas
\* A row widened to the columns cs, missing cells filled with NaN.
Pad(row, cs) == [c \in cs |-> IF c \in DOMAIN row THEN row[c] ELSE NaN]

\* pd.concat([a, b], ignore_index=True): the union of the columns, the rows
\* of a followed by the rows of b.
Concat(a, b) ==
    LET cs == a.cols \cup b.cols
    IN  Frame(cs, [i \in 1..(Len(a.rows) + Len(b.rows)) |->
                      IF i <= Len(a.rows) THEN Pad(a.rows[i], cs)
                      ELSE Pad(b.rows[i - Len(a.rows)], cs)])

\* set(df['url'].values)
UrlValues(df) == {df.rows[i]["url"] : i \in 1..Len(df.rows)}

\* ---------------------------------------------------------------- merge_data
\* A Skip filter that lets every new row through.
NewOnlyKeepsAll(existing, new) == new

\* Skip strategy: new_df[~new_df['url'].isin(existing_urls)].
NewOnly(existing, new) ==
    Frame(new.cols,
          SelectSeq(new.rows, LAMBDA r : r["url"] \notin UrlValues(existing)))

\* An Update test that leaves out the truthiness of the new value.
OverwritesAlways(col, v) == col # "url"

\* Update strategy, the test of one cell of a new row:
\* `col != 'url' and new_row[col]`.
Overwrites(col, v) == col # "url" /\ Truthy(v)

\* merged.loc[mask, col] = new_row[col] for every column of new_df that
\* passes the test; a column merged does not have yet is created, NaN in the
\* rows outside the mask.
UpdateExisting(merged, new_row) ==
    LET set == {c \in DOMAIN new_row : Overwrites(c, new_row[c])}
        cs  == merged.cols \cup set
    IN  Frame(cs, [i \in 1..Len(merged.rows) |->
                     [c \in cs |->
                        IF c \in set /\ merged.rows[i]["url"] = new_row["url"]
                        THEN new_row[c]
                        ELSE Pad(merged.rows[i], cs)[c]]])

\* A turn of the Update loop that appends the new record even when its url
\* is in the dataset.
UpdateRowAppendsToo(merged, new_row) ==
    Concat(IF new_row["url"] \in UrlValues(merged)
           THEN UpdateExisting(merged, new_row)
           ELSE merged,
           Frame(DOMAIN new_row, <<new_row>>))

\* One turn of `for _, new_row in new_df.iterrows()`.
UpdateRow(merged, new_row) ==
    IF new_row["url"] \in UrlValues(merged)
    THEN UpdateExisting(merged, new_row)
    ELSE Concat(merged, Frame(DOMAIN new_row, <<new_row>>))

\* The Update loop, from row i of new_df on.
RECURSIVE UpdateFrom(_, _, _)
UpdateFrom(merged, new, i) ==
    IF i > Len(new.rows) THEN merged
    ELSE UpdateFrom(UpdateRow(merged, new.rows[i]), new, i + 1)

\* `if existing_df.empty: return new_df`
ReturnsNewAsIs(existing) == IsEmpty(existing)

\* `'url' not in existing_df.columns or 'url' not in new_df.columns`
UrlColumnMissing(existing, new) ==
    "url" \notin existing.cols \/ "url" \notin new.cols

\* A missing-url branch that hands back the existing dataset alone.
MissingUrlReturnsExisting(existing, new) == existing

\* The branch taken when the url column is missing:
\* `return pd.concat([existing_df, new_df], ignore_index=True)`.
MissingUrlMerge(existing, new) == Concat(existing, new)

\* A Skip branch that puts the new records before the existing ones.
SkipMergeNewFirst(existing, new) == Concat(NewOnly(existing, new), existing)

\* The branch `merge_strategy == "skip"`.
SkipMerge(existing, new) == Concat(existing, NewOnly(existing, new))

\* The branch `merge_strategy == "update"`.
UpdateMerge(existing, new) == UpdateFrom(existing, new, 1)

\* An Append that drops the new rows whose url the dataset has already.
AppendMergeDeduped(existing, new) == Concat(existing, NewOnly(existing, new))

\* The branch `merge_strategy == "append"`.
AppendMerge(existing, new) == Concat(existing, new)

\* A fallback to Skip instead of Update.
FallbackStrategySkip == "skip"

\* The strategy the final else branch calls merge_data again with.
FallbackStrategy == "update"

RECURSIVE merge_data(_, _, _)
merge_data(existing, new, strategy) ==
    IF ReturnsNewAsIs(existing) THEN new
    ELSE IF UrlColumnMissing(existing, new) THEN MissingUrlMerge(existing, new)
    ELSE IF strategy = "skip" THEN SkipMerge(existing, new)
    ELSE IF strategy = "update" THEN UpdateMerge(existing, new)
    ELSE IF strategy = "append" THEN AppendMerge(existing, new)
    ELSE merge_data(existing, new, FallbackStrategy)

\* ------------------------------------------- merge_with_external_source
\* The key values in the order an outer pd.merge puts them: sorted, a missing
\* key last.
KeyOrder == <<"u1", "u2", "u3", NaN>>

\* The indices, ascending, of the rows of df whose key is k.
IndicesOf(df, key, k) ==
    SelectSeq([i \in 1..Len(df.rows) |-> i], LAMBDA i : df.rows[i][key] = k)

\* suffixes=('', '_external'): a column of the external frame whose name the
\* primary frame has too is renamed; the primary's keep their names.
Renamed(c, leftCols) == IF c \in leftCols THEN c \o "_external" ELSE c

\* One row of the join: the key, the primary row's cells and the external
\* row's cells; a side without a row for the key (given as <<>>) is NaN.
JoinedRow(lrow, rrow, key, k, leftCols, rightCols) ==
    LET cs == {key} \cup leftCols \cup {Renamed(d, leftCols) : d \in rightCols}
    IN  [c \in cs |->
           IF c = key THEN k
           ELSE IF c \in leftCols
                THEN (IF c \in DOMAIN lrow THEN lrow[c] ELSE NaN)
                ELSE LET d == CHOOSE d \in rightCols : Renamed(d, leftCols) = c
                     IN  IF d \in DOMAIN rrow THEN rrow[d] ELSE NaN]

\* The rows of the join for the key k: every pairing of a primary row with an
\* external row of that key, or the rows of the one side that has the key.
RowsOfKey(left, right, key, k) ==
    LET L  == IndicesOf(left, key, k)
        R  == IndicesOf(right, key, k)
        lc == left.cols \ {key}
        rc == right.cols \ {key}
    IN  IF L # <<>> /\ R # <<>>
        THEN [n \in 1..(Len(L) * Len(R)) |->
                JoinedRow(left.rows[L[((n - 1) \div Len(R)) + 1]],
                          right.rows[R[((n - 1) % Len(R)) + 1]], key, k, lc, rc)]
        ELSE IF L # <<>>
        THEN [n \in 1..Len(L) |-> JoinedRow(left.rows[L[n]], <<>>, key, k, lc, rc)]
        ELSE [n \in 1..Len(R) |-> JoinedRow(<<>>, right.rows[R[n]], key, k, lc, rc)]

RECURSIVE OuterRows(_, _, _, _)
OuterRows(left, right, key, n) ==
    IF n > Len(KeyOrder) THEN <<>>
    ELSE RowsOfKey(left, right, key, KeyOrder[n]) \o OuterRows(left, right, key, n + 1)

\* how='left' instead of how='outer': the keys of the primary frame only.
LeftMerge(left, right, key) ==
    LET lc == left.cols \ {key}
        rc == right.cols \ {key}
    IN  Frame({key} \cup lc \cup {Renamed(d, lc) : d \in rc},
              SelectSeq(OuterRows(left, right, key, 1),
                        LAMBDA r : IndicesOf(left, key, r[key]) # <<>>))

\* pd.merge(df, external_df, on=key_column, how='outer',
\*          suffixes=('', '_external'))
OuterMerge(left, right, key) ==
    LET lc == left.cols \ {key}
        rc == right.cols \ {key}
    IN  Frame({key} \cup lc \cup {Renamed(d, lc) : d \in rc},
              OuterRows(left, right, key, 1))

\* `key_column not in df.columns or key_column not in external_df.columns`
KeyColumnMissing(df, external, key) ==
    key \notin df.cols \/ key \notin external.cols

\* merge_with_external_source(df, external_csv, key_column); file is what
\* read_csv makes of external_csv: [ok, df], ok FALSE when it raises.
merge_with_external_source(df, file, key) ==
    IF ~file.ok THEN df
    ELSE IF KeyColumnMissing(df, file.df, key) THEN df
    ELSE OuterMerge(df, file.df, key)

\* ------------------------------------------------------------ extract_meta
\* What the site serves for a URL: <<ok, title, tags>>, ok being FALSE when
\* the fetch or the parse raises.
PageOutcomes == {<<FALSE, "", "">>, <<TRUE, "Y", "">>}

\* extract_meta(url): the record of the page, or on any exception the record
\* with every extracted field empty.
extract_meta(url, page) ==
    IF ~page[1] THEN [url |-> url, title |-> "", tags |-> ""]
    ELSE [url |-> url, title |-> page[2], tags |-> page[3]]

\* ----------------------------------------------------------------- main
\* The answers to "Choose (1-3, default=1)": the three listed ones, an empty
\* line and a mistyped one.
Choices == {"1", "2", "3", "", "x"}

\* strategy_map.get(strategy_choice, "skip")
StrategyOfChoice(choice) ==
    CASE choice = "1" -> "skip"
      [] choice = "2" -> "update"
      [] choice = "3" -> "append"
      [] choice = ""  -> "skip"
      [] OTHER                 -> "skip"

\* `if not existing_df.empty and urls`: the strategy prompt is shown.
Prompted(existing, discovered) == ~IsEmpty(existing) /\ discovered # <<>>

\* The strategy main passes to merge_data.
MainStrategy(existing, discovered, choice) ==
    IF Prompted(existing, discovered) THEN StrategyOfChoice(choice)
    ELSE "update"

\* The URLs main goes on to scrape: under skip, with a url column in the
\* existing data, `[u for u in urls if u not in existing_urls]`.
UrlsToScrape(existing, discovered, choice) ==
    IF /\ Prompted(existing, discovered)
       /\ StrategyOfChoice(choice) = "skip"
       /\ "url" \in existing.cols
    THEN SelectSeq(discovered, LAMBDA u : u \notin UrlValues(existing))
    ELSE discovered

\* rows.append(extract_meta(url)) for each url; new_df = pd.DataFrame(rows)
Scrape(todo, site) ==
    Frame(AllCols, [i \in 1..Len(todo) |-> extract_meta(todo[i], site[todo[i]])])

\* final_df after Step 3 of main.
MainFinal(existing, discovered, choice, site) ==
    LET todo == UrlsToScrape(existing, discovered, choice)
    IN  IF todo # <<>>
        THEN merge_data(existing, Scrape(todo, site),
                        MainStrategy(existing, discovered, choice))
        ELSE existing

\* A discovery result is sorted(set(...)): the URLs in order, each once.
UrlOrder == <<"u1", "u2">>
Discoveries ==
    {SelectSeq(UrlOrder, LAMBDA u : u \in S) : S \in SUBSET Urls}

\* ------------------------------------------------------------------- URLs
\* A URL is [host, path, slash, query, frag]: the host ("site" for BASE,
\* https://www.mannaz.com/), the path segments after it, and whether a
\* trailing slash, a ?query and a #fragment follow the path.
Url(host, path, slash, query, frag) ==
    [host |-> host, path |-> path, slash |-> slash, query |-> query, frag |-> frag]

\* BASE + "<path>/"
Listing(path) == Url("site", path, TRUE, FALSE, FALSE)

\* url.startswith(BASE)
StartsWithBase(u) == u.host = "site"

\* url.split("#")[0].split("?")[0].rstrip("/")
Normalize(u) == [u EXCEPT !.frag = FALSE, !.query = FALSE, !.slash = FALSE]

\* The segment seg begins with the text m.
SegmentStartsWith(seg, m) ==
    \/ seg = m
    \/ <<seg, m>> \in {<<"artikler-arkiv", "artikler">>}

\* "/<seg>/" in url: the segment, whole, with a slash after it.
HasSegmentSlash(u, seg) ==
    \E i \in 1..Len(u.path) : u.path[i] = seg /\ (i < Len(u.path) \/ u.slash)

\* "/<m>" in url: a segment that begins with m.
HasSegmentPrefix(u, m) ==
    \E i \in 1..Len(u.path) : SegmentStartsWith(u.path[i], m)

\* "/<seg>/<m>" in url: the segment, and after it one that begins with m.
HasSegmentThenPrefix(u, seg, m) ==
    \E i \in 1..(Len(u.path) - 1) :
        u.path[i] = seg /\ SegmentStartsWith(u.path[i + 1], m)

\* any(pattern in url for pattern in ["/artikler/", "/articles/"])
HasArticleMarker(u) ==
    HasSegmentSlash(u, "artikler") \/ HasSegmentSlash(u, "articles")

\* any(avoid in url for avoid in
\*     ["/page/", "/artikler/artikler", "/articles/articles"])
HasAvoidPattern(u) ==
    \/ HasSegmentSlash(u, "page")
    \/ HasSegmentThenPrefix(u, "artikler", "artikler")
    \/ HasSegmentThenPrefix(u, "articles", "articles")

\* any(x in url for x in ["/artikler", "/articles", "/blog", "/inspiration"])
HasListingMarker(u) ==
    \/ HasSegmentPrefix(u, "artikler")
    \/ HasSegmentPrefix(u, "articles")
    \/ HasSegmentPrefix(u, "blog")
    \/ HasSegmentPrefix(u, "inspiration")

\* The URLs a discovery can return, in sorted() order.
SortedUrls ==
    <<Url("site", <<"artikler", "a1">>, FALSE, FALSE, FALSE),
      Url("site", <<"artikler", "a1">>, TRUE, FALSE, FALSE),
      Url("site", <<"artikler", "page", "2">>, FALSE, FALSE, FALSE),
      Url("site", <<"artikler", "sitemap.xml">>, FALSE, FALSE, FALSE)>>

\* sorted(S)
Sorted(S) == SelectSeq(SortedUrls, LAMBDA u : u \in S)

\* ----------------------------------------------------- discover_via_sitemap
\* Largest number of nested <sitemap> entries of a sitemap.
MaxNested == 2

\* BASE + "sitemap.xml", and a second sitemap, whose URL has an article
\* marker.
DefaultSitemap == Url("site", <<"sitemap.xml">>, FALSE, FALSE, FALSE)
ArticleSitemap == Url("site", <<"artikler", "sitemap.xml">>, FALSE, FALSE, FALSE)
Sitemaps == {DefaultSitemap, ArticleSitemap}

\* The <url><loc> entries a sitemap may carry: none; an article and a page
\* that is none; an article with a trailing slash and a pagination page.
LocSets ==
    {{},
     {Url("site", <<"artikler", "a1">>, FALSE, FALSE, FALSE),
      Url("site", <<"om-mannaz">>, FALSE, FALSE, FALSE)},
     {Url("site", <<"artikler", "a1">>, TRUE, FALSE, FALSE),
      Url("site", <<"artikler", "page", "2">>, FALSE, FALSE, FALSE)}}

\* What requests.get and the XML parse give for a sitemap URL: [ok, nested,
\* locs], ok FALSE when either raises, nested the <loc> of the <sitemap>
\* entries in document order, locs the <loc> of the <url> entries.
FailedDoc == [ok |-> FALSE, nested |-> <<>>, locs |-> {}]
Docs ==
    {FailedDoc}
    \cup [ok : {TRUE}, nested : SeqsUpTo(Sitemaps, MaxNested), locs : LocSets]

\* What robots.txt gives: [ok, sitemaps], ok FALSE when the fetch raises,
\* sitemaps the targets of its Sitemap: lines.
Robots ==
    {[ok |-> FALSE, sitemaps |-> <<>>],
     [ok |-> TRUE, sitemaps |-> <<>>],
     [ok |-> TRUE, sitemaps |-> <<ArticleSitemap>>],
     [ok |-> TRUE, sitemaps |-> <<DefaultSitemap, ArticleSitemap>>]}

\* get_sitemaps()
get_sitemaps(robots) ==
    IF ~robots.ok \/ robots.sitemaps = <<>> THEN <<DefaultSitemap>>
    ELSE robots.sitemaps

\* A depth test that lets one more level through.
DepthExceededOffByOne(depth) == depth > 4

\* `if depth > 3: return []`
DepthExceeded(depth) == depth > 3

\* xml.find_all("loc"): every <loc> of the document, those of the <sitemap>
\* entries included.
AllLocs(doc) == {doc.nested[i] : i \in 1..Len(doc.nested)} \cup doc.locs

\* The URLs extract_from_sitemap appends from the document itself.
Collected(doc) == {u \in AllLocs(doc) : HasArticleMarker(u)}

\* A call in progress: the sitemap, its depth, the nested sitemaps still to
\* go into, and the urls list so far (as a set: only set(all_urls) is
\* returned).
CallFrame(sitemap_url, depth, docs) ==
    [url |-> sitemap_url, depth |-> depth, todo |-> docs[sitemap_url].nested,
     urls |-> {}]

\* The stack after extract_from_sitemap(sitemap_url, depth) is entered on
\* top of below: nothing pushed when the depth is exceeded or the fetch
\* raises (the call returns []), else the call's frame.
Entered(below, sitemap_url, depth, docs) ==
    IF DepthExceeded(depth) \/ ~docs[sitemap_url].ok THEN below
    ELSE <<CallFrame(sitemap_url, depth, docs)>> \o below

Max(a, b) == IF a >= b THEN a ELSE b

SitemapInit ==
    /\ sm_pc = "run"
    /\ sitemap_docs \in [Sitemaps -> Docs]
    /\ \E robots \in Robots : roots_left = get_sitemaps(robots)
    /\ stack = <<>>
    /\ all_urls = {}
    /\ sm_fetched = 0
    /\ sm_deepest = 0
    /\ sitemap_result = <<>>

\* `for sm in sitemaps: all_urls.extend(extract_from_sitemap(sm))`: the call
\* for the next sitemap is entered, at depth 0.
SitemapStartRoot ==
    /\ sm_pc = "run"
    /\ stack = <<>>
    /\ roots_left # <<>>
    /\ stack' = Entered(<<>>, Head(roots_left), 0, sitemap_docs)
    /\ roots_left' = Tail(roots_left)
    /\ sm_fetched' = IF DepthExceeded(0) THEN sm_fetched ELSE sm_fetched + 1
    /\ UNCHANGED <<sm_pc, sitemap_docs, all_urls, sm_deepest, sitemap_result,
                   crawl_vars, merge_vars, side_vars>>

\* `urls.extend(extract_from_sitemap(loc.text.strip(), depth + 1))`: the
\* call for the next nested sitemap is entered.
SitemapDescend ==
    /\ sm_pc = "run"
    /\ stack # <<>>
    /\ Head(stack).todo # <<>>
    /\ LET top   == Head(stack)
           child == Head(top.todo)
           depth == top.depth + 1
       IN  /\ stack' = Entered(<<[top EXCEPT !.todo = Tail(@)]>> \o Tail(stack),
                               child, depth, sitemap_docs)
           /\ sm_fetched' = IF DepthExceeded(depth) THEN sm_fetched
                            ELSE sm_fetched + 1
           /\ sm_deepest' = IF DepthExceeded(depth) THEN sm_deepest
                            ELSE Max(sm_deepest, depth)
    /\ UNCHANGED <<sm_pc, sitemap_docs, roots_left, all_urls, sitemap_result,
                   crawl_vars, merge_vars, side_vars>>

\* The nested sitemaps done, the call appends the document's own URLs and
\* returns its list to its caller.
SitemapReturn ==
    /\ sm_pc = "run"
    /\ stack # <<>>
    /\ Head(stack).todo = <<>>
    /\ LET top      == Head(stack)
           returned == top.urls \cup Collected(sitemap_docs[top.url])
           rest     == Tail(stack)
       IN  IF rest = <<>>
           THEN /\ all_urls' = all_urls \cup returned
                /\ stack' = <<>>
           ELSE /\ stack' = <<[Head(rest) EXCEPT !.urls = @ \cup returned]>>
                              \o Tail(rest)
                /\ UNCHANGED all_urls
    /\ UNCHANGED <<sm_pc, sitemap_docs, roots_left, sm_fetched, sm_deepest,
                   sitemap_result, crawl_vars, merge_vars, side_vars>>

\* `return sorted(set(all_urls))`
SitemapFinish ==
    /\ sm_pc = "run"
    /\ stack = <<>>
    /\ roots_left = <<>>
    /\ sm_pc' = "done"
    /\ sitemap_result' = Sorted(all_urls)
    /\ UNCHANGED <<sitemap_docs, roots_left, stack, all_urls, sm_fetched,
                   sm_deepest, crawl_vars, merge_vars, side_vars>>

\* ------------------------------------------------------- discover_via_crawl
\* Largest page-visit limit tried.
MaxPages == 5
\* Largest number of links on a page.
MaxLinks == 2

\* entry_points
EntryPoints ==
    {Listing(<<"artikler">>), Listing(<<"articles">>),
     Listing(<<"da", "artikler">>), Listing(<<"en", "articles">>)}

\* start_url: the default BASE + "artikler/", or one the caller gives.
StartUrls == {Listing(<<"artikler">>), Listing(<<"blog">>)}

\* The link targets a page may carry, as urljoin resolves them: an article
\* with a trailing slash, a query and a fragment; the same article bare; a
\* pagination page; a listing page; a page of another site.
Hrefs ==
    {Url("site", <<"artikler", "a1">>, TRUE, TRUE, TRUE),
     Url("site", <<"artikler", "a1">>, FALSE, FALSE, FALSE),
     Url("site", <<"artikler", "page", "2">>, FALSE, FALSE, FALSE),
     Url("site", <<"blog">>, TRUE, FALSE, FALSE),
     Url("other", <<"artikler", "a1">>, FALSE, FALSE, FALSE)}

\* What requests.get and the parse give for a page: [ok, links], ok FALSE
\* when the fetch raises, links the <a href> targets in document order.
Responses ==
    {[ok |-> FALSE, links |-> <<>>]}
    \cup [ok : {TRUE}, links : SeqsUpTo(Hrefs, MaxLinks)]

\* A while test that lets one page too many through.
LoopContinuesOffByOne(frontier, seen, limit) ==
    frontier # {} /\ Cardinality(seen) <= limit

\* `while to_visit and len(visited) < max_pages`
LoopContinues(frontier, seen, limit) ==
    frontier # {} /\ Cardinality(seen) < limit

\* A link loop body that enqueues a listing page however full the frontier
\* is.
ProcessLinkNoCap(st, href, seen, limit) ==
    LET url == Normalize(href)
    IN  IF ~StartsWithBase(href) THEN st
        ELSE IF HasArticleMarker(url)
             THEN (IF ~HasAvoidPattern(url)
                   THEN [st EXCEPT !.article_urls = @ \cup {url}]
                   ELSE st)
        ELSE IF HasListingMarker(url) /\ url \notin seen
             THEN [st EXCEPT !.to_visit = @ \cup {url}]
        ELSE st

\* The body of `for link in soup.find_all("a", href=True)` for one link, on
\* st = [to_visit, article_urls].
ProcessLink(st, href, seen, limit) ==
    LET url == Normalize(href)
    IN  IF ~StartsWithBase(href) THEN st
        ELSE IF HasArticleMarker(url)
             THEN (IF ~HasAvoidPattern(url)
                   THEN [st EXCEPT !.article_urls = @ \cup {url}]
                   ELSE st)
        ELSE IF HasListingMarker(url)
             THEN (IF url \notin seen /\ Cardinality(st.to_visit) < limit * 2
                   THEN [st EXCEPT !.to_visit = @ \cup {url}]
                   ELSE st)
        ELSE st

\* The for loop over the links of a page, from link i on.
RECURSIVE ProcessLinks(_, _, _, _, _)
ProcessLinks(st, links, i, seen, limit) ==
    IF i > Len(links) THEN st
    ELSE ProcessLinks(ProcessLink(st, links[i], seen, limit), links, i + 1,
                      seen, limit)

CrawlInit ==
    /\ crawl_pc = "loop"
    /\ max_pages \in 0..MaxPages
    /\ visited = {}
    /\ \E start_url \in StartUrls : to_visit = {start_url} \cup EntryPoints
    /\ article_urls = {}
    /\ fetched = 0
    /\ crawl_gap = "none"
    /\ crawl_result = <<>>

\* One turn of the while loop: pop a URL; if it was visited go on to the
\* next turn, else mark it visited, fetch it and go through its links;
\* time.sleep(0.5) is the last statement of the try block, so it runs when
\* nothing before it raised.
CrawlTurn ==
    /\ crawl_pc = "loop"
    /\ LoopContinues(to_visit, visited, max_pages)
    /\ \E current \in to_visit :
          IF current \in visited
          THEN /\ to_visit' = to_visit \ {current}
               /\ UNCHANGED <<visited, article_urls, fetched, crawl_gap>>
          ELSE \E response \in Responses :
                  LET seen == visited \cup {current}
                      st   == ProcessLinks([to_visit |-> to_visit \ {current},
                                            article_urls |-> article_urls],
                                           response.links, 1, seen, max_pages)
                  IN  /\ visited' = seen
                      /\ fetched' = fetched + 1
                      /\ crawl_gap' = IF response.ok THEN "slept" ELSE "raw"
                      /\ to_visit' = st.to_visit
                      /\ article_urls' = st.article_urls
    /\ UNCHANGED <<crawl_pc, max_pages, crawl_result, sitemap_vars, merge_vars,
                   side_vars>>

\* The while test fails: return sorted(article_urls).
CrawlReturn ==
    /\ crawl_pc = "loop"
    /\ ~LoopContinues(to_visit, visited, max_pages)
    /\ crawl_pc' = "done"
    /\ crawl_result' = Sorted(article_urls)
    /\ UNCHANGED <<max_pages, visited, to_visit, article_urls, fetched,
                   crawl_gap, sitemap_vars, merge_vars, side_vars>>

CrawlNext == CrawlTurn \/ CrawlReturn

\* -------------------------------------------------- the merge state machine
Strategies == {"skip", "update", "append", "bogus"}

StoredFrames ==
    {NoFrame}
    \cup {Frame(AllCols, r) : r \in SeqsUpTo(StoredRows, MaxExisting)}
    \cup {Frame({"title", "tags"}, r) :
            r \in SeqsUpTo(KeylessStoredRows, MaxExisting) \ {<<>>}}

NewFrames ==
    {Frame(AllCols, r) : r \in SeqsUpTo(ScrapedRows, MaxNew)}
    \cup {Frame({"title", "tags"}, r) :
            r \in SeqsUpTo(KeylessScrapedRows, MaxNew) \ {<<>>}}

\* Two rows of df carry the same url (a missing url is no url).
HasDuplicateUrl(df) ==
    /\ "url" \in df.cols
    /\ \E i, j \in 1..Len(df.rows) :
          /\ i < j
          /\ df.rows[i]["url"] # NaN
          /\ df.rows[i]["url"] = df.rows[j]["url"]

\* Largest number of rows of the external CSV.
MaxExternal == 2

\* Rows of an external CSV: a key the site has and one it does not, and a
\* title column, which the primary dataset has too.
ExternalRows == [url : {"u1", "u3"}, title : {"E"}]
KeylessExternalRows == [title : {"E"}]

NoFile == [ok |-> FALSE, df |-> NoFrame]
ExternalFiles ==
    {NoFile}
    \cup {[ok |-> TRUE, df |-> Frame({"url", "title"}, r)] :
            r \in SeqsUpTo(ExternalRows, MaxExternal)}
    \cup {[ok |-> TRUE, df |-> Frame({"title"}, <<r>>)] : r \in KeylessExternalRows}

\* The default key and one that neither table has.
KeyColumns == {"url", "id"}

Sites == [Urls -> PageOutcomes]
NoSite == [u \in Urls |-> <<FALSE, "", "">>]
InSeq(x, q) == \E i \in 1..Len(q) : q[i] = x

MergeInit ==
    /\ pc = "idle"
    /\ caller = "none"
    /\ existing_df \in StoredFrames
    /\ new_df = NoFrame
    /\ merge_strategy = "none"
    /\ final_df = NoFrame
    /\ urls = <<>>
    /\ strategy_choice = "none"
    /\ pages = NoSite
    /\ external_file = NoFile
    /\ key_column = "none"
    /\ clean = ~HasDuplicateUrl(existing_df)

\* A call merge_data(existing_df, new, strategy).
CallMergeData ==
    /\ pc = "idle"
    /\ \E new \in NewFrames, strategy \in Strategies :
          /\ new_df' = new
          /\ merge_strategy' = strategy
          /\ final_df' = merge_data(existing_df, new, strategy)
          /\ clean' = (clean /\ strategy \in {"skip", "update"})
    /\ pc' = "returned"
    /\ caller' = "merge_data"
    /\ UNCHANGED <<existing_df, urls, strategy_choice, pages, external_file,
                   key_column, crawl_vars, sitemap_vars, side_vars>>

\* Steps 2 and 3 of main on the existing data: the strategy prompt, the
\* filter, the extraction loop and the merge.
MainMerge ==
    /\ pc = "idle"
    /\ \E discovered \in Discoveries, choice \in Choices,
          site \in Sites :
          /\ \A u \in Urls : InSeq(u, discovered) \/ site[u] = NoSite[u]
          /\
            LET shown == Prompted(existing_df, discovered)
                strat == MainStrategy(existing_df, discovered, choice)
            IN
              /\ urls' = discovered
              /\ strategy_choice' = IF shown THEN choice ELSE "none"
              /\ pages' = site
              /\ merge_strategy' = strat
              /\ new_df' = Scrape(UrlsToScrape(existing_df, discovered, choice), site)
              /\ final_df' = MainFinal(existing_df, discovered, choice, site)
              /\ clean' = (clean /\ strat \in {"skip", "update"})
    /\ pc' = "returned"
    /\ caller' = "main"
    /\ UNCHANGED <<existing_df, external_file, key_column, crawl_vars,
                   sitemap_vars, side_vars>>

\* A call merge_with_external_source(existing_df, external_csv, key).
CallMergeWithExternal ==
    /\ pc = "idle"
    /\ \E file \in ExternalFiles, key \in KeyColumns :
          /\ external_file' = file
          /\ key_column' = key
          /\ final_df' = merge_with_external_source(existing_df, file, key)
    /\ pc' = "returned"
    /\ caller' = "merge_with_external_source"
    /\ UNCHANGED <<existing_df, new_df, merge_strategy, urls, strategy_choice,
                   pages, clean, crawl_vars, sitemap_vars, side_vars>>

\* The returned dataset is the existing dataset of a further call.
Chain ==
    /\ pc = "returned"
    /\ caller \in {"merge_data", "main"}
    /\ Len(final_df.rows) <= MaxExisting
    /\ existing_df' = final_df
    /\ pc' = "idle"
    /\ caller' = "none"
    /\ new_df' = NoFrame
    /\ merge_strategy' = "none"
    /\ final_df' = NoFrame
    /\ urls' = <<>>
    /\ strategy_choice' = "none"
    /\ pages' = NoSite
    /\ UNCHANGED <<external_file, key_column, clean, crawl_vars, sitemap_vars,
                   side_vars>>

MergeNext == CallMergeData \/ MainMerge \/ CallMergeWithExternal \/ Chain

\* The discovery loops are not running.
CrawlOff ==
    /\ crawl_pc = "off"
    /\ max_pages = 0
    /\ visited = {}
    /\ to_visit = {}
    /\ article_urls = {}
    /\ fetched = 0
    /\ crawl_gap = "none"
    /\ crawl_result = <<>>

SitemapOff ==
    /\ sm_pc = "off"
    /\ sitemap_docs = [u \in Sitemaps |-> FailedDoc]
    /\ roots_left = <<>>
    /\ stack = <<>>
    /\ all_urls = {}
    /\ sm_fetched = 0
    /\ sm_deepest = 0
    /\ sitemap_result = <<>>

\* No merge is running.
MergeOff ==
    /\ pc = "off"
    /\ caller = "none"
    /\ existing_df = NoFrame
    /\ new_df = NoFrame
    /\ merge_strategy = "none"
    /\ final_df = NoFrame
    /\ urls = <<>>
    /\ strategy_choice = "none"
    /\ pages = NoSite
    /\ external_file = NoFile
    /\ key_column = "none"
    /\ clean = TRUE

\* discover_via_hybrid is not running.
HybridOff ==
    /\ hybrid_pc = "off"
    /\ hybrid_result = <<>>

\* A run of discover_via_crawl that is not started.
NoRun == [pc |-> "off", visited |-> {}, to_visit |-> {}, article_urls |-> {},
          result |-> <<>>]

\* No pair of crawls is running.
PairOff ==
    /\ site_links = <<>>
    /\ pair_limit = 0
    /\ runs = <<NoRun, NoRun>>

\* The extraction loop is not running.
ScrapeOff ==
    /\ scrape_pc = "off"
    /\ scrape_urls = <<>>
    /\ scrape_rows = <<>>
    /\ scrape_fetches = <<>>
    /\ scrape_gap = "none"

\* None of the other operations is running.
SideOff == HybridOff /\ PairOff /\ ScrapeOff

\* The merge reconciler: merge_data, called directly or by main, and
\* merge_with_external_source, on a dataset of any content within the bounds.
MergeSpecInit == MergeInit /\ CrawlOff /\ SitemapOff /\ SideOff

MergeSpec == MergeSpecInit /\ [][MergeNext]_vars

\* discover_via_sitemap on a site of any sitemap graph within the bounds. The
\* program is sequential and every fetch has a timeout, so a step that can
\* be taken is taken.
SitemapNext ==
    SitemapStartRoot \/ SitemapDescend \/ SitemapReturn \/ SitemapFinish

SitemapSpecInit == SitemapInit /\ CrawlOff /\ MergeOff /\ SideOff

SitemapSpec ==
    /\ SitemapSpecInit
    /\ [][SitemapNext]_vars
    /\ WF_vars(SitemapNext)

\* discover_via_crawl on a site of any link graph within the bounds, under
\* the same scheduling.
CrawlSpecInit == CrawlInit /\ SitemapOff /\ MergeOff /\ SideOff

CrawlSpec ==
    /\ CrawlSpecInit
    /\ [][CrawlNext]_vars
    /\ WF_vars(CrawlNext)

\* ------------------------------------------------------- discover_via_hybrid
\* Largest max_crawl_pages tried.
MaxHybridPages == 1

\* set(list)
SetOf(list) == {list[i] : i \in 1..Len(list)}

\* The sitemaps of the site hybrid discovery is run on: leaf sitemaps, and
\* an index whose one entry is the article sitemap.
HybridDocs ==
    {d \in Docs : d.nested = <<>> \/ (d.nested = <<ArticleSitemap>> /\ d.locs = {})}

\* A hybrid result that keeps only what the crawl found and the sitemaps did
\* not.
HybridUrlsCrawlOnly(sitemap_urls, crawl_urls) == crawl_urls \ sitemap_urls

\* all_urls.update(sitemap_urls); new_from_crawl = crawl_urls - all_urls;
\* all_urls.update(new_from_crawl)
HybridUrls(sitemap_urls, crawl_urls) ==
    LET new_from_crawl == crawl_urls \ sitemap_urls
    IN  sitemap_urls \cup new_from_crawl

\* discover_via_hybrid(max_crawl_pages) is entered: Phase 1 is
\* discover_via_sitemap().
HybridInit ==
    /\ hybrid_pc = "sitemap"
    /\ hybrid_result = <<>>
    /\ SitemapInit
    /\ \A u \in Sitemaps : sitemap_docs[u] \in HybridDocs

\* Phase 2: discover_via_crawl(max_pages=max_crawl_pages) is entered, with
\* the default start_url.
HybridStartCrawl ==
    /\ hybrid_pc = "sitemap"
    /\ sm_pc = "done"
    /\ hybrid_pc' = "crawl"
    /\ crawl_pc' = "loop"
    /\ \E max_crawl_pages \in 0..MaxHybridPages : max_pages' = max_crawl_pages
    /\ visited' = {}
    /\ to_visit' = {Listing(<<"artikler">>)} \cup EntryPoints
    /\ article_urls' = {}
    /\ fetched' = 0
    /\ crawl_gap' = "none"
    /\ crawl_result' = <<>>
    /\ UNCHANGED <<hybrid_result, sitemap_vars, merge_vars, pair_vars,
                   scrape_vars>>

\* `return sorted(all_urls)`
HybridFinish ==
    /\ hybrid_pc = "crawl"
    /\ crawl_pc = "done"
    /\ hybrid_pc' = "done"
    /\ hybrid_result' = Sorted(HybridUrls(SetOf(sitemap_result),
                                          SetOf(crawl_result)))
    /\ UNCHANGED <<crawl_vars, sitemap_vars, merge_vars, pair_vars,
                   scrape_vars>>

HybridNext == SitemapNext \/ HybridStartCrawl \/ CrawlNext \/ HybridFinish

\* discover_via_hybrid on a site of any content within the bounds.
HybridSpecInit == HybridInit /\ CrawlOff /\ MergeOff /\ PairOff /\ ScrapeOff

HybridSpec == HybridSpecInit /\ [][HybridNext]_vars

\* ------------------------------------- two crawls of one site, side by side
\* Largest max_pages the two runs are given.
MaxPairPages == 2

\* The pages a crawl of the site can come to fetch: the entry points and the
\* listing page a link leads to, as the crawl normalises it.
PairPages == EntryPoints \cup {Normalize(Listing(<<"blog">>))}

\* What a page of the site serves, whenever it is fetched: a failure, a link
\* to the article, or a link to the listing page.
PairResponses ==
    {[ok |-> FALSE, links |-> <<>>],
     [ok |-> TRUE, links |-> <<Url("site", <<"artikler", "a1">>, TRUE, TRUE, TRUE)>>],
     [ok |-> TRUE, links |-> <<Listing(<<"blog">>)>>]}

\* discover_via_crawl(max_pages=limit) is entered, with the default
\* start_url.
StartedRun ==
    [pc |-> "loop", visited |-> {},
     to_visit |-> {Listing(<<"artikler">>)} \cup EntryPoints,
     article_urls |-> {}, result |-> <<>>]

\* One turn of the while loop of a run: current is popped, and response is
\* what the site serves for it.
Turned(run, current, response, limit) ==
    IF current \in run.visited
    THEN [run EXCEPT !.to_visit = @ \ {current}]
    ELSE LET seen == run.visited \cup {current}
             st   == ProcessLinks([to_visit |-> run.to_visit \ {current},
                                   article_urls |-> run.article_urls],
                                  response.links, 1, seen, limit)
         IN  [run EXCEPT !.visited = seen,
                         !.to_visit = st.to_visit,
                         !.article_urls = st.article_urls]

PairInit ==
    /\ site_links \in [PairPages -> PairResponses]
    /\ pair_limit \in 0..MaxPairPages
    /\ runs = <<StartedRun, StartedRun>>

\* A turn of the while loop of run r; the second run is made after the
\* first has returned.
PairTurn(r) ==
    /\ runs[r].pc = "loop"
    /\ r = 2 => runs[1].pc = "done"
    /\ LoopContinues(runs[r].to_visit, runs[r].visited, pair_limit)
    /\ \E current \in runs[r].to_visit :
          runs' = [runs EXCEPT ![r] = Turned(@, current, site_links[current],
                                            pair_limit)]
    /\ UNCHANGED <<site_links, pair_limit, hybrid_vars, scrape_vars,
                   crawl_vars, sitemap_vars, merge_vars>>

\* The while test of run r fails: return sorted(article_urls).
PairReturn(r) ==
    /\ runs[r].pc = "loop"
    /\ r = 2 => runs[1].pc = "done"
    /\ ~LoopContinues(runs[r].to_visit, runs[r].visited, pair_limit)
    /\ runs' = [runs EXCEPT ![r].pc = "done",
                            ![r].result = Sorted(runs[r].article_urls)]
    /\ UNCHANGED <<site_links, pair_limit, hybrid_vars, scrape_vars,
                   crawl_vars, sitemap_vars, merge_vars>>

PairNext == \E r \in {1, 2} : PairTurn(r) \/ PairReturn(r)

\* discover_via_crawl run twice on a site of any link graph within the
\* bounds, with the same max_pages.
PairSpecInit ==
    PairInit /\ HybridOff /\ ScrapeOff /\ CrawlOff /\ SitemapOff /\ MergeOff

PairSpec == PairSpecInit /\ [][PairNext]_vars

\* ------------------------------------------- the extraction loop of main
\* The URLs of a discovered list, in its order: an article, the same with a
\* trailing slash, and an article of the English section.
ScrapeOrder ==
    <<Url("site", <<"artikler", "a1">>, FALSE, FALSE, FALSE),
      Url("site", <<"artikler", "a1">>, TRUE, FALSE, FALSE),
      Url("site", <<"en", "articles", "b1">>, FALSE, FALSE, FALSE)>>

\* The lists the loop is entered with (`if urls:`): not empty, each URL once.
ScrapeLists ==
    {SelectSeq(ScrapeOrder, LAMBDA u : u \in S) :
        S \in (SUBSET SetOf(ScrapeOrder)) \ {{}}}

\* What fetching a URL gives: the fetch or the parse raises; a response
\* comes that has no <title>, no <h1> and no meta element (an error page, a
\* body that is no HTML); a page with a title, a published date and a
\* keyword.
Fetches ==
    {[raises |-> TRUE, title |-> "", published |-> "", keywords |-> ""],
     [raises |-> FALSE, title |-> "", published |-> "", keywords |-> ""],
     [raises |-> FALSE, title |-> "Y", published |-> "2024-01-02",
      keywords |-> "T"]}

\* What datetime.now().strftime("%Y-%m-%d %H:%M:%S") gives.
Timestamps == {"2026-01-01 10:00:00", "2026-01-01 10:00:01"}

\* `language`: "/da/" or "/en/" in the URL, else by the article segment.
Language(u) ==
    IF HasSegmentSlash(u, "da") THEN "DA"
    ELSE IF HasSegmentSlash(u, "en") THEN "EN"
    ELSE IF HasSegmentSlash(u, "artikler") THEN "DA"
    ELSE IF HasSegmentSlash(u, "articles") THEN "EN"
    ELSE ""

\* url.split("/")[-1].replace("-", " ").title(): the text after the last
\* slash, none when the URL ends with the slash.
SlugTitle(u) ==
    IF u.slash THEN ""
    ELSE CASE u.path[Len(u.path)] = "a1" -> "A1"
           [] u.path[Len(u.path)] = "b1" -> "B1"
           [] OTHER -> u.path[Len(u.path)]

\* An extract_meta whose record of a failure keeps the language of the URL.
PageRecordKeepsLanguage(url, fetch, clock) ==
    [url |-> url, language |-> Language(url),
     title |-> IF fetch.raises \/ fetch.title # "" THEN fetch.title
               ELSE SlugTitle(url),
     date_created |-> fetch.published, date_modified |-> "",
     tags |-> fetch.keywords, scraped_at |-> clock]

\* The PageRecord extract_meta(url) returns: on any exception the record of
\* the except branch, else the extracted fields, the title being that of
\* <title> or, without <title> and <h1>, the one made of the URL.
PageRecord(url, fetch, clock) ==
    IF fetch.raises
    THEN [url |-> url, language |-> "", title |-> "", date_created |-> "",
          date_modified |-> "", tags |-> "", scraped_at |-> clock]
    ELSE [url |-> url, language |-> Language(url),
          title |-> IF fetch.title # "" THEN fetch.title ELSE SlugTitle(url),
          date_created |-> fetch.published, date_modified |-> "",
          tags |-> fetch.keywords, scraped_at |-> clock]

ScrapeInit ==
    /\ scrape_pc = "loop"
    /\ scrape_urls \in ScrapeLists
    /\ scrape_rows = <<>>
    /\ scrape_fetches = <<>>
    /\ scrape_gap = "none"

\* One turn of `for i, url in enumerate(urls, 1)`:
\* rows.append(extract_meta(url)); time.sleep(0.5).
ScrapeTurn ==
    /\ scrape_pc = "loop"
    /\ Len(scrape_rows) < Len(scrape_urls)
    /\ \E fetch \in Fetches, clock \in Timestamps :
          /\ scrape_rows' =
                Append(scrape_rows,
                       PageRecord(scrape_urls[Len(scrape_rows) + 1], fetch, clock))
          /\ scrape_fetches' = Append(scrape_fetches, fetch)
    /\ scrape_gap' = "slept"
    /\ UNCHANGED <<scrape_pc, scrape_urls, hybrid_vars, pair_vars, crawl_vars,
                   sitemap_vars, merge_vars>>

\* The list is through: new_df = pd.DataFrame(rows).
ScrapeDone ==
    /\ scrape_pc = "loop"
    /\ Len(scrape_rows) = Len(scrape_urls)
    /\ scrape_pc' = "done"
    /\ UNCHANGED <<scrape_urls, scrape_rows, scrape_fetches, scrape_gap,
                   hybrid_vars, pair_vars, crawl_vars, sitemap_vars,
                   merge_vars>>

ScrapeNext == ScrapeTurn \/ ScrapeDone

\* The extraction loop on a list of URLs and a site of any behaviour within
\* the bounds; every fetch has a timeout, so a turn that can be taken is
\* taken.
ScrapeSpecInit ==
    ScrapeInit /\ HybridOff /\ PairOff /\ CrawlOff /\ SitemapOff /\ MergeOff

ScrapeSpec ==
    /\ ScrapeSpecInit
    /\ [][ScrapeNext]_vars
    /\ WF_vars(ScrapeNext)


\* =================================================================== claims
Returned(who) == pc = "returned" /\ caller = who

\* A cell holds a value: neither the empty string nor a missing cell.
NonEmpty(v) == v # "" /\ v # NaN

\* A cell of a row, a column the row does not have being missing.
Cell(row, c) == IF c \in DOMAIN row THEN row[c] ELSE NaN

\* The url of the row occurs in the dataset.
UrlOccurs(row, df) ==
    /\ "url" \in DOMAIN row
    /\ "url" \in df.cols
    /\ row["url"] \in UrlValues(df)

\* The rows of result are those of first, then those of second, every cell a
\* row had kept as it was.
FollowedBy(result, first, second) ==
    /\ Len(result.rows) = Len(first.rows) + Len(second.rows)
    /\ \A i \in 1..Len(first.rows) : \A c \in first.cols :
          result.rows[i][c] = first.rows[i][c]
    /\ \A j \in 1..Len(second.rows) : \A c \in second.cols :
          result.rows[Len(first.rows) + j][c] = second.rows[j][c]

\* A url that occurs in both frames.
SharedUrl(a, b) ==
    /\ "url" \in a.cols
    /\ "url" \in b.cols
    /\ UrlValues(a) \cap UrlValues(b) # {}

\* C1 (as claimed): starting from a dataset without duplicate urls, after any
\* sequence of Skip and Update merges no two records of the result share a
\* url.
C1_NoDuplicateUrlAfterSkipOrUpdate ==
    (pc = "returned" /\ caller \in {"merge_data", "main"} /\ clean)
        => ~HasDuplicateUrl(final_df)

\* C2: a Skip merge returns the existing records, unchanged and in order,
\* followed by exactly the new records whose url does not occur in the
\* existing dataset.
C2_SkipKeepsExisting ==
    (pc = "returned" /\ merge_strategy = "skip")
        => FollowedBy(final_df, existing_df,
                      Frame(new_df.cols,
                            SelectSeq(new_df.rows,
                                      LAMBDA r : ~UrlOccurs(r, existing_df))))

C2_Witness ==
    /\ Returned("merge_data")
    /\ merge_strategy = "skip"
    /\ existing_df.rows # <<>>
    /\ "url" \in new_df.cols
    /\ \E i, j \in 1..Len(new_df.rows) :
          /\ UrlOccurs(new_df.rows[i], existing_df)
          /\ ~UrlOccurs(new_df.rows[j], existing_df)
    /\ Len(final_df.rows) = Len(existing_df.rows) + 1

\* C3: an Update merge leaves a non-empty field of an existing record as it
\* was when every new record of the same url has that field empty.
C3_UpdateKeepsNonEmpty ==
    (pc = "returned" /\ merge_strategy = "update")
        => /\ Len(final_df.rows) >= Len(existing_df.rows)
           /\ \A i \in 1..Len(existing_df.rows) : \A c \in existing_df.cols :
                 ( /\ NonEmpty(existing_df.rows[i][c])
                   /\ \A j \in 1..Len(new_df.rows) :
                         Cell(new_df.rows[j], "url") = Cell(existing_df.rows[i], "url")
                             => ~NonEmpty(Cell(new_df.rows[j], c)) )
                 => final_df.rows[i][c] = existing_df.rows[i][c]

C3_Witness ==
    /\ Returned("merge_data")
    /\ merge_strategy = "update"
    /\ \E i \in 1..Len(existing_df.rows) : \E j \in 1..Len(new_df.rows) :
          /\ "url" \in existing_df.cols
          /\ "url" \in new_df.cols
          /\ new_df.rows[j]["url"] = existing_df.rows[i]["url"]
          /\ existing_df.rows[i]["title"] = "X"
          /\ new_df.rows[j]["title"] = ""
          /\ final_df.rows[i]["title"] = "X"

\* Neither frame lacks the url column (an empty existing dataset has no
\* columns to lack).
Keyed(existing, new) ==
    "url" \in new.cols /\ (IsEmpty(existing) \/ "url" \in existing.cols)

\* C4 (as claimed): merging the same new records a second time with Update
\* changes nothing.
C4_UpdateIdempotent ==
    (pc = "returned" /\ caller = "merge_data" /\ merge_strategy = "update"
        /\ Keyed(existing_df, new_df))
        => merge_data(final_df, new_df, "update") = final_df

\* C5: an Append merge returns as many records as the existing dataset and
\* the new set have together, the records sharing a url all kept.
C5_AppendKeepsAll ==
    (pc = "returned" /\ merge_strategy = "append")
        => /\ Len(final_df.rows) = Len(existing_df.rows) + Len(new_df.rows)
           /\ FollowedBy(final_df, existing_df, new_df)

C5_Witness ==
    /\ Returned("merge_data")
    /\ merge_strategy = "append"
    /\ SharedUrl(existing_df, new_df)
    /\ HasDuplicateUrl(final_df)
    /\ Len(final_df.rows) = Len(existing_df.rows) + Len(new_df.rows)

KnownStrategies == {"skip", "update", "append"}

\* C6 (as claimed): an unknown strategy passed to merge_data, and an empty or
\* mistyped answer at the strategy prompt of main, both end in the Update
\* merge.
C6_UnknownMeansUpdate ==
    /\ (Returned("merge_data") /\ merge_strategy \notin KnownStrategies)
          => final_df = merge_data(existing_df, new_df, "update")
    /\ (Returned("main") /\ strategy_choice \notin {"1", "2", "3"})
          => final_df = MainFinal(existing_df, urls, "2", pages)

\* C6 (amended): an unknown strategy passed to merge_data ends in the Update
\* merge; at the prompt of main an empty or mistyped answer selects Skip, and
\* main passes Update only when it shows no prompt.
C6_UnknownMeansUpdateOrPromptDefault ==
    /\ (Returned("merge_data") /\ merge_strategy \notin KnownStrategies)
          => final_df = merge_data(existing_df, new_df, "update")
    /\ (Returned("main") /\ strategy_choice \in {"", "x"})
          => /\ merge_strategy = "skip"
             /\ final_df = MainFinal(existing_df, urls, "1", pages)
    /\ (Returned("main") /\ strategy_choice = "none")
          => /\ merge_strategy = "update"
             /\ final_df = MainFinal(existing_df, urls, "2", pages)

C6_Witness ==
    /\ Returned("merge_data")
    /\ merge_strategy = "bogus"
    /\ SharedUrl(existing_df, new_df)
    /\ final_df # merge_data(existing_df, new_df, "skip")
    /\ final_df # merge_data(existing_df, new_df, "append")

\* C7 (as claimed): the join key missing from one side, the merge returns the
\* primary dataset as it was (here for a primary dataset that has records).
C7_MissingKeyReturnsPrimary ==
    /\ (Returned("merge_data") /\ ~IsEmpty(existing_df)
            /\ UrlColumnMissing(existing_df, new_df))
          => final_df = existing_df
    /\ (Returned("merge_with_external_source") /\ external_file.ok
            /\ KeyColumnMissing(existing_df, external_file.df, key_column))
          => final_df = existing_df

\* C7 (amended): the key column missing, merge_with_external_source returns
\* the primary dataset as it was; the url column missing, merge_data returns
\* the existing records followed by all the new records, each as it was.
C7_MissingKeyConcatOrPrimary ==
    /\ (Returned("merge_data") /\ UrlColumnMissing(existing_df, new_df))
          => FollowedBy(final_df, existing_df, new_df)
    /\ (Returned("merge_with_external_source") /\ external_file.ok
            /\ KeyColumnMissing(existing_df, external_file.df, key_column))
          => final_df = existing_df

C7_Witness ==
    /\ Returned("merge_data")
    /\ "url" \in existing_df.cols
    /\ "url" \notin new_df.cols
    /\ existing_df.rows # <<>>
    /\ new_df.rows # <<>>
    /\ Len(final_df.rows) = Len(existing_df.rows) + Len(new_df.rows)

\* How many rows of df carry the key k.
KeyCount(df, key, k) == Cardinality({i \in 1..Len(df.rows) : df.rows[i][key] = k})

KeyValues == {"u1", "u2", "u3"}

\* merge_with_external_source has performed the join.
Joined ==
    /\ Returned("merge_with_external_source")
    /\ external_file.ok
    /\ ~KeyColumnMissing(existing_df, external_file.df, key_column)

\* C8 (as claimed): every key of the primary or of the external dataset is
\* in exactly one row of the join, and no other key is in any.
C8_EveryKeyExactlyOnce ==
    Joined =>
        \A k \in KeyValues :
            LET p == KeyCount(existing_df, key_column, k)
                e == KeyCount(external_file.df, key_column, k)
                r == KeyCount(final_df, key_column, k)
            IN  r = (IF p > 0 \/ e > 0 THEN 1 ELSE 0)

\* C8 (amended): a key in p rows of the primary and e rows of the external
\* dataset is in p * e rows of the join when both have it, else in p + e: in
\* exactly one when neither has it twice and one has it, in none when
\* neither has it.
C8_EveryKeyByMultiplicity ==
    Joined =>
        \A k \in KeyValues :
            LET p == KeyCount(existing_df, key_column, k)
                e == KeyCount(external_file.df, key_column, k)
                r == KeyCount(final_df, key_column, k)
            IN  /\ r = (IF p > 0 /\ e > 0 THEN p * e ELSE p + e)
                /\ (p <= 1 /\ e <= 1 /\ p + e > 0) => r = 1

C8_Witness ==
    /\ Joined
    /\ KeyCount(existing_df, key_column, "u1") = 1
    /\ KeyCount(external_file.df, key_column, "u1") = 1
    /\ KeyCount(existing_df, key_column, "u2") = 1
    /\ KeyCount(external_file.df, key_column, "u3") = 1
    /\ Len(final_df.rows) = 3

\* C9: whatever the sitemap graph, cyclic or deeply nested, sitemap discovery
\* fetches no sitemap at a depth greater than 3 and returns.
C9_SitemapDepthBoundedAndTerminates ==
    /\ [](sm_deepest <= 3)
    /\ <>(sm_pc = "done")

\* The default sitemap names itself twice; its calls are entered down to
\* depth 3, fifteen fetches in all, and discovery has returned.
C9_Witness ==
    /\ sm_pc = "done"
    /\ sitemap_docs[DefaultSitemap].ok
    /\ sitemap_docs[DefaultSitemap].nested = <<DefaultSitemap, DefaultSitemap>>
    /\ sm_deepest = 3
    /\ sm_fetched = 15

\* The while loop of the crawl is over, or is to end at its next test.
CrawlExhausted == to_visit = {} \/ Cardinality(visited) >= max_pages

\* C10: whatever the link graph and max_pages, the crawl fetches at most
\* max_pages pages, fetches nothing more once the frontier is empty or
\* max_pages pages are visited, returns only then, and does return.
C10_CrawlBoundedAndTerminates ==
    /\ [](fetched <= max_pages)
    /\ [][CrawlExhausted => fetched' = fetched]_vars
    /\ [](crawl_pc = "done" => CrawlExhausted)
    /\ [][(crawl_pc = "loop" /\ ~CrawlExhausted) => crawl_pc' = "loop"]_vars
    /\ <>(crawl_pc = "done")

\* The crawl has returned at the limit, URLs left in the frontier.
C10_Witness ==
    /\ crawl_pc = "done"
    /\ max_pages >= 2
    /\ fetched = max_pages
    /\ to_visit # {}

\* Two URLs of the list differ only by a trailing slash, a fragment or a
\* query string.
HasVariants(list) ==
    \E i, j \in 1..Len(list) :
        list[i] # list[j] /\ Normalize(list[i]) = Normalize(list[j])

\* C11 (as claimed): the list returned by sitemap discovery, by crawl
\* discovery and by hybrid discovery has no two URLs that differ only by a
\* trailing slash, a fragment or a query string.
C11_NoVariantsReturned ==
    /\ sm_pc = "done" => ~HasVariants(sitemap_result)
    /\ crawl_pc = "done" => ~HasVariants(crawl_result)
    /\ hybrid_pc = "done" => ~HasVariants(hybrid_result)

\* The article .../artikler/a1, as a sitemap may list it and as the crawl
\* normalises a link to it.
ArticleA1 == Url("site", <<"artikler", "a1">>, FALSE, FALSE, FALSE)

C13_PopOrderIrrelevant ==
    (runs[1].pc = "done" /\ runs[2].pc = "done")
        => runs[1].result = runs[2].result

\* Every URL of the list has an article-path marker and matches no
\* exclusion pattern.
OnlyArticles(list) ==
    \A i \in 1..Len(list) :
        HasArticleMarker(list[i]) /\ ~HasAvoidPattern(list[i])

\* C14 (as claimed): every URL returned by sitemap discovery, by crawl
\* discovery and by hybrid discovery contains "/artikler/" or "/articles/"
\* and none of "/page/", "/artikler/artikler", "/articles/articles".
C14_OnlyArticlesReturned ==
    /\ sm_pc = "done" => OnlyArticles(sitemap_result)
    /\ crawl_pc = "done" => OnlyArticles(crawl_result)
    /\ hybrid_pc = "done" => OnlyArticles(hybrid_result)

\* The record is the one of a failure: every extracted field empty.
AllEmpty(row) ==
    /\ row.language = ""
    /\ row.title = ""
    /\ row.date_created = ""
    /\ row.date_modified = ""
    /\ row.tags = ""

\* C15: extract_meta raises nothing: whatever the fetches give, the loop
\* appends one record for each URL in turn, with the URL it was given and
\* scraped_at set, the record of a failed fetch having every other field
\* empty, and it comes to the end of the list.
C15_ExtractNeverRaises ==
    /\ [](/\ Len(scrape_rows) <= Len(scrape_urls)
          /\ \A i \in 1..Len(scrape_rows) :
                /\ scrape_rows[i].url = scrape_urls[i]
                /\ scrape_rows[i].scraped_at # ""
                /\ scrape_fetches[i].raises => AllEmpty(scrape_rows[i]))
    /\ <>(scrape_pc = "done" /\ Len(scrape_rows) = Len(scrape_urls))

\* The first fetch failed, its record is the all-empty one, and the loop has
\* gone on through the two URLs after it.
C15_Witness ==
    /\ scrape_pc = "done"
    /\ Len(scrape_rows) = 3
    /\ scrape_fetches[1].raises
    /\ AllEmpty(scrape_rows[1])
    /\ scrape_rows[1].url = scrape_urls[1]
    /\ ~AllEmpty(scrape_rows[2])

\* The last of the new records from index from on that has the url u and a
\* non-empty value in column c; 0 when there is none.
LastSetting(new, u, c, from) ==
    LET S == {j \in from..Len(new.rows) :
                new.rows[j]["url"] = u /\ NonEmpty(new.rows[j][c])}
    IN  IF S = {} THEN 0 ELSE CHOOSE j \in S : \A k \in S : k <= j

\* The new records whose url is neither in the existing dataset nor in an
\* earlier new record, by index, in order.
Newcomers(existing, new) ==
    SelectSeq([j \in 1..Len(new.rows) |-> j],
              LAMBDA j : /\ new.rows[j]["url"] \notin UrlValues(existing)
                         /\ \A k \in 1..(j - 1) :
                               new.rows[k]["url"] # new.rows[j]["url"])

\* The row that the record old has become once the new records from index
\* from on were taken in order: each field other than url holds the last
\* non-empty value a new record of the same url has for it, else its own.
Settled(old, new, from) ==
    [c \in DOMAIN old |->
        IF c # "url" /\ LastSetting(new, old["url"], c, from) # 0
        THEN new.rows[LastSetting(new, old["url"], c, from)][c]
        ELSE old[c]]

\* C16: an Update merge into a dataset that has records takes the new
\* records in order: one whose url is in the dataset sets the fields other
\* than url for which it has a non-empty value, in the record of that url,
\* and adds no record; one whose url is not is appended at the end as it is.
C16_UpdateRecordByRecord ==
    (pc = "returned" /\ merge_strategy = "update" /\ ~IsEmpty(existing_df)
        /\ ~UrlColumnMissing(existing_df, new_df))
        => LET firsts == Newcomers(existing_df, new_df)
           IN  /\ Len(final_df.rows) = Len(existing_df.rows) + Len(firsts)
               /\ \A i \in 1..Len(existing_df.rows) :
                     final_df.rows[i] = Settled(existing_df.rows[i], new_df, 1)
               /\ \A k \in 1..Len(firsts) :
                     final_df.rows[Len(existing_df.rows) + k]
                         = Settled(new_df.rows[firsts[k]], new_df, firsts[k] + 1)

\* A new record has set the title of the existing record of its url and not
\* its tags, and a new record of another url is appended after it.
C16_Witness ==
    /\ Returned("merge_data")
    /\ merge_strategy = "update"
    /\ Len(existing_df.rows) = 1
    /\ "url" \in existing_df.cols
    /\ Len(new_df.rows) = 2
    /\ "url" \in new_df.cols
    /\ new_df.rows[1]["url"] = existing_df.rows[1]["url"]
    /\ new_df.rows[2]["url"] # existing_df.rows[1]["url"]
    /\ existing_df.rows[1]["title"] = "X"
    /\ new_df.rows[1]["title"] = "Y"
    /\ new_df.rows[1]["tags"] = ""
    /\ final_df.rows = <<[existing_df.rows[1] EXCEPT !["title"] = "Y"],
                          new_df.rows[2]>>

\* C17 (as claimed): every URL sitemap discovery returns is the <loc> of a
\* <url> entry of a sitemap of the site; the <loc> of a nested <sitemap>
\* entry, article marker or not, is not returned.
C17_NestedLocsNotReturned ==
    sm_pc = "done" =>
        \A u \in SetOf(sitemap_result) :
            \E sm \in Sitemaps :
                sitemap_docs[sm].ok /\ u \in sitemap_docs[sm].locs

\* C18 (as claimed): in the crawl and in the extraction loop a page is
\* fetched only when no page was fetched before or time.sleep has run since
\* the last fetch, whether that fetch succeeded or failed.
C18_DelayBetweenFetches ==
    /\ [][fetched' > fetched => crawl_gap # "raw"]_vars
    /\ [][Len(scrape_rows') > Len(scrape_rows) => scrape_gap # "raw"]_vars

\* C19 (as claimed): in every state of the crawl the frontier holds at most
\* 2 * max_pages URLs.
C19_FrontierWithinTwiceLimit ==
    crawl_pc \in {"loop", "done"} => Cardinality(to_visit) <= 2 * max_pages

\* C19 (amended): a URL is added to the frontier during the crawl only if it
\* is not visited and the frontier held fewer than 2 * max_pages URLs, so the
\* frontier never holds more than 2 * max_pages URLs or than the start URL
\* and the four entry points it begins with, whichever is more.
C19_FrontierGrowsWithinTwiceLimit ==
    /\ [][\A u \in to_visit' \ to_visit :
              u \notin visited' /\ Cardinality(to_visit') <= 2 * max_pages]_vars
    /\ [](Cardinality(to_visit)
             <= Max(2 * max_pages, Cardinality(EntryPoints) + 1))

\* A crawl with max_pages 1 has fetched its page and returned: the frontier
\* still holds four of its five initial URLs, more than 2 * max_pages, and
\* the listing page was not added to it.
C19_Witness ==
    /\ crawl_pc = "done"
    /\ max_pages = 1
    /\ fetched = 1
    /\ Cardinality(to_visit) = 4
    /\ Normalize(Listing(<<"blog">>)) \notin to_visit

\* C20: whatever the strategy, a merge by merge_data returns at least as
\* many records as the dataset had, the record at each position of the
\* dataset at the same position with the same url; what is new comes after
\* them. The returned dataset being the dataset of the next merge, this
\* holds along every sequence of merges.
C20_MergeKeepsRecordsInPlace ==
    (pc = "returned" /\ caller \in {"merge_data", "main"})
        => /\ Len(final_df.rows) >= Len(existing_df.rows)
           /\ \A i \in 1..Len(existing_df.rows) :
                 Cell(final_df.rows[i], "url") = Cell(existing_df.rows[i], "url")

\* The dataset is the result of an earlier merge (its record is a scraped
\* one); an Update merge of two new records, the first of a new url and the
\* second of the url the dataset has, has left the record first, its title
\* set, and put the new url after it.
C20_Witness ==
    /\ Returned("merge_data")
    /\ merge_strategy = "update"
    /\ existing_df.rows = <<[url |-> "u2", title |-> "", tags |-> ""]>>
    /\ Len(new_df.rows) = 2
    /\ "url" \in new_df.cols
    /\ new_df.rows[1]["url"] = "u1"
    /\ new_df.rows[2] = [url |-> "u2", title |-> "Y", tags |-> ""]
    /\ final_df.rows = <<new_df.rows[2], new_df.rows[1]>>

====
